---- MODULE Spec2Model ----
(***************************************************************************)
(* A model of app/(tabs)/index.tsx: the ChatsScreen component (its state,  *)
(* its effect, the asynchronous fetchChatrooms closure, row selection),   *)
(* the pure helper formatTimestamp, and the transformation of lines 54-65  *)
(* as a function of the membership data and the image batch.               *)
(*                                                                         *)
(* One fetchChatrooms call is a small process with two suspension points:  *)
(* the await of the membership query (line 42) and the await of            *)
(* fetchSceneryImages (line 52).  Everything between two awaits runs in    *)
(* one JavaScript turn and is one action here.                             *)
(*                                                                         *)
(* loading and chatrooms hold the value most recently handed to            *)
(* setLoading / setChatrooms (or the useState initial value).              *)
(***************************************************************************)
EXTENDS Integers, Sequences, FiniteSets, TLC

VARIABLES
  phase,       \* "idle" before the first commit, then "mounted", then "unmounted"
  session,     \* line 35: the session useAuth() returns
  loading,     \* line 36
  chatrooms,   \* line 37
  fetches,     \* lines 40-73: one record per fetchChatrooms call, in start order
  navigation,  \* line 82: the paths handed to router.push, in call order
  errorLog,    \* line 69: the number of console.error calls
  unhandled,   \* line 76: rejections of the promises fetchChatrooms returned
  idChanges,   \* the number of changes of session?.user?.id since mount
  pendingEffect, \* lines 75-77: the effect a committed render has scheduled
  tsIn,        \* line 24: the argument of formatTimestamp
  tsOut,       \* line 24: what formatTimestamp returned
  tsZone,      \* line 27: the time zone of the device, which a Date's fields depend on
  trData,      \* line 42: the data lines 54-65 are applied to on their own
  trImages,    \* line 52: the batch lines 54-65 are applied to on their own
  trOut        \* line 54: the transformedData they give

vars == <<phase, session, loading, chatrooms, fetches, navigation,
          errorLog, unhandled, idChanges, pendingEffect, tsIn, tsOut, tsZone,
          trData, trImages, trOut>>

screenVars == <<phase, session, loading, chatrooms, fetches, navigation,
                errorLog, unhandled, idChanges, pendingEffect>>

tsVars == <<tsIn, tsOut, tsZone>>

trVars == <<trData, trImages, trOut>>

\* the variables of the pure functions checked on their own
pureVars == <<tsVars, trVars>>

(***************************************************************************)
(* Bounds of the model.                                                    *)
(***************************************************************************)
\* how many times the current user id may change while the screen is mounted
MaxIdChanges == 1
\* the longest image batch fetchSceneryImages returns
MaxBatch == 2
\* the longest membership list the transformation is applied to on its own
MaxRows == 5
\* how many router.push calls are followed
MaxNav == 1

(***************************************************************************)
(* Values.                                                                 *)
(***************************************************************************)
\* JavaScript null (avatar_url: string | null)
Null == "<null>"
\* JavaScript undefined (session?.user?.id with no session)
Undefined == "<undefined>"

Users == {"u1", "u2"}
Tokens == {"t1", "t2"}

\* the useAuth() session: a signed-in session carries a user id and an access
\* token (refreshed from time to time); NoSession is the signed-out value
NoSession == [user_id |-> Undefined, access_token |-> "none"]
Sessions == {NoSession} \cup [user_id : Users, access_token : Tokens]

\* session?.user?.id
UserIdOf(s) == s.user_id

\* the rows of the backend table chatroom_memberships joined to chatrooms
MembershipTable ==
  << [user_id |-> "u1", chatroom |-> [id |-> "b", name |-> "Random"]],
     [user_id |-> "u2", chatroom |-> [id |-> "c", name |-> "Work"]],
     [user_id |-> "u1", chatroom |-> [id |-> "a", name |-> "General"]] >>

RECURSIVE SelectRows(_, _)
\* .select('chatroom:chatrooms!inner (id, name)').eq('user_id', uid)
SelectRows(table, uid) ==
  IF table = <<>> THEN <<>>
  ELSE LET rest == SelectRows(Tail(table), uid)
       IN IF Head(table).user_id = uid
          THEN <<[chatroom |-> Head(table).chatroom]>> \o rest
          ELSE rest

\* the `data` of a membership response: null, or the rows in backend order
NullData == [isNull |-> TRUE, rows |-> <<>>]
RowsData(rows) == [isNull |-> FALSE, rows |-> rows]

\* what the membership query can resolve to for user id uid
MembershipResponses(uid) == {NullData, RowsData(SelectRows(MembershipTable, uid))}

\* image URLs; the empty string is a string too
ImageUrls == {"", "img1"}

RECURSIVE SeqsUpTo(_, _)
SeqsUpTo(S, n) ==
  IF n = 0 THEN {<<>>}
  ELSE LET shorter == SeqsUpTo(S, n - 1)
       IN shorter \cup {Append(s, x) : s \in {t \in shorter : Len(t) = n - 1}, x \in S}

\* what fetchSceneryImages can resolve to
ImageBatches == SeqsUpTo(ImageUrls, MaxBatch)

(***************************************************************************)
(* fetchChatrooms, lines 54-65: the transformation.                        *)
(***************************************************************************)
\* JavaScript truthiness of a string-or-undefined value
Truthy(v) == v # "" /\ v # Undefined /\ v # Null

\* ImageAt with the modulo forgotten: unsplashImages[index]
ImageAtNoWrap(unsplashImages, index) ==
  IF index < Len(unsplashImages) THEN unsplashImages[index + 1] ELSE Undefined

\* unsplashImages[index % unsplashImages.length]: index % 0 is NaN and
\* array[NaN] is undefined
ImageAt(unsplashImages, index) ==
  IF Len(unsplashImages) = 0 THEN Undefined
  ELSE unsplashImages[(index % Len(unsplashImages)) + 1]

\* x || null
OrNull(v) == IF Truthy(v) THEN v ELSE Null

\* the object built for data[index] (index is 0-based as in the source)
TransformItem(item, index, unsplashImages) ==
  [ id |-> item.chatroom.id,
    name |-> item.chatroom.name,
    lastMessage |->
      [ content |-> "No messages yet",
        created_at |-> "",
        sender |-> [ username |-> "Unknown",
                     avatar_url |-> OrNull(ImageAt(unsplashImages, index)) ] ] ]

\* TransformedData appended to the list already held instead of replacing it
TransformedDataMerged(data, unsplashImages) ==
  IF data.isNull THEN chatrooms
  ELSE chatrooms \o
       [k \in 1..Len(data.rows) |-> TransformItem(data.rows[k], k - 1, unsplashImages)]

\* data?.map((item, index) => ...) || []
TransformedData(data, unsplashImages) ==
  IF data.isNull THEN <<>>
  ELSE [k \in 1..Len(data.rows) |-> TransformItem(data.rows[k], k - 1, unsplashImages)]

(***************************************************************************)
(* The fetchChatrooms process.                                             *)
(***************************************************************************)
\* a fetchChatrooms call suspended at its first await
NewFetch(uid) ==
  [uid |-> uid, pc |-> "membership", data |-> NullData, imagesIssued |-> FALSE]

InFlight(f) == f.pc \in {"membership", "images"}
Completed(f) == f.pc \in {"ok", "failed"}

\* useEffect body: fetchChatrooms() builds the query with the closure's user
\* id and suspends; the promise it returns is dropped
StartFetch(uid) == fetches' = Append(fetches, NewFetch(uid))

\* catch (err) { console.error(...) }
CatchHandler ==
  /\ errorLog' = errorLog + 1
  /\ unhandled' = unhandled

\* no exception on this path
NoThrow ==
  /\ errorLog' = errorLog
  /\ unhandled' = unhandled

\* setLoading(false) as the last statement of the try block instead
FinallyInTry(threw) == loading' = IF threw THEN loading ELSE FALSE

\* finally { setLoading(false) }: runs whether or not the try block threw
Finally(threw) == loading' = FALSE

\* the function returns: its locals are gone
Finish(f, pc) == [f EXCEPT !.pc = pc, !.data = NullData]

\* line 42 resolves; line 52 calls fetchSceneryImages and suspends
MembershipReturns(i, data) ==
  /\ i \in 1..Len(fetches)
  /\ fetches[i].pc = "membership"
  /\ data \in MembershipResponses(fetches[i].uid)
  /\ fetches' = [fetches EXCEPT ![i] = [@ EXCEPT !.pc = "images", !.data = data,
                                                 !.imagesIssued = TRUE]]
  /\ UNCHANGED <<phase, session, loading, chatrooms, navigation, errorLog,
                 unhandled, idChanges, pendingEffect, pureVars>>

\* MembershipThrows with a catch block that also calls setChatrooms([])
MembershipThrowsClearing(i) ==
  /\ i \in 1..Len(fetches)
  /\ fetches[i].pc = "membership"
  /\ CatchHandler
  /\ Finally(TRUE)
  /\ chatrooms' = <<>>
  /\ fetches' = [fetches EXCEPT ![i] = Finish(@, "failed")]
  /\ UNCHANGED <<phase, session, navigation, idChanges, pendingEffect, pureVars>>

\* line 42 rejects: catch, finally
MembershipThrows(i) ==
  /\ i \in 1..Len(fetches)
  /\ fetches[i].pc = "membership"
  /\ CatchHandler
  /\ Finally(TRUE)
  /\ fetches' = [fetches EXCEPT ![i] = Finish(@, "failed")]
  /\ UNCHANGED <<phase, session, chatrooms, navigation, idChanges, pendingEffect, pureVars>>

\* ImagesReturn that drops a response whose user id is no longer current
ImagesReturnIfCurrent(i, unsplashImages) ==
  /\ i \in 1..Len(fetches)
  /\ fetches[i].pc = "images"
  /\ unsplashImages \in ImageBatches
  /\ chatrooms' = IF fetches[i].uid = UserIdOf(session)
                  THEN TransformedData(fetches[i].data, unsplashImages)
                  ELSE chatrooms
  /\ NoThrow
  /\ Finally(FALSE)
  /\ fetches' = [fetches EXCEPT ![i] = Finish(@, "ok")]
  /\ UNCHANGED <<phase, session, navigation, idChanges, pendingEffect, pureVars>>

\* line 52 resolves: lines 54-67, finally
ImagesReturn(i, unsplashImages) ==
  /\ i \in 1..Len(fetches)
  /\ fetches[i].pc = "images"
  /\ unsplashImages \in ImageBatches
  /\ chatrooms' = TransformedData(fetches[i].data, unsplashImages)
  /\ NoThrow
  /\ Finally(FALSE)
  /\ fetches' = [fetches EXCEPT ![i] = Finish(@, "ok")]
  /\ UNCHANGED <<phase, session, navigation, idChanges, pendingEffect, pureVars>>

\* ImagesThrow with setChatrooms called on the membership rows before the
\* image query is awaited, so that a failing image query leaves them shown
ImagesThrowPartial(i) ==
  /\ i \in 1..Len(fetches)
  /\ fetches[i].pc = "images"
  /\ CatchHandler
  /\ Finally(TRUE)
  /\ chatrooms' = TransformedData(fetches[i].data, <<>>)
  /\ fetches' = [fetches EXCEPT ![i] = Finish(@, "failed")]
  /\ UNCHANGED <<phase, session, navigation, idChanges, pendingEffect, pureVars>>

\* line 52 rejects: catch, finally
ImagesThrow(i) ==
  /\ i \in 1..Len(fetches)
  /\ fetches[i].pc = "images"
  /\ CatchHandler
  /\ Finally(TRUE)
  /\ fetches' = [fetches EXCEPT ![i] = Finish(@, "failed")]
  /\ UNCHANGED <<phase, session, chatrooms, navigation, idChanges, pendingEffect, pureVars>>

(***************************************************************************)
(* The component.                                                          *)
(***************************************************************************)
\* the dependency array holding the session object instead of the user id
DepsChangedOnSession(old, new) == old # new

\* the dependency arrays of lines 73 and 77: fetchChatrooms is a new function,
\* and the effect runs again, exactly when session?.user?.id differs
DepsChanged(old, new) == UserIdOf(old) # UserIdOf(new)

\* no effect is waiting to run
NoEffect == [scheduled |-> FALSE, uid |-> Undefined]
\* the effect of lines 75-77 as a render scheduled it: it calls the
\* fetchChatrooms of that render, which closes over that render's user id
ScheduledEffect(uid) == [scheduled |-> TRUE, uid |-> uid]

\* the first render commits; its effect is scheduled and runs later
Mount ==
  /\ phase = "idle"
  /\ phase' = "mounted"
  /\ pendingEffect' = ScheduledEffect(UserIdOf(session))
  /\ UNCHANGED <<session, loading, chatrooms, fetches, navigation, errorLog,
                 unhandled, idChanges, pureVars>>

\* useAuth() delivers another session (sign-in, sign-out, account switch,
\* token refresh) and the component renders again; the effect is scheduled
\* when its dependency changed.  React runs an effect that is still waiting
\* before it renders again, so a render finds none waiting.
SessionChange(s) ==
  /\ phase = "mounted"
  /\ ~pendingEffect.scheduled
  /\ s \in Sessions
  /\ s # session
  /\ UserIdOf(s) # UserIdOf(session) => idChanges < MaxIdChanges
  /\ idChanges' = IF UserIdOf(s) # UserIdOf(session) THEN idChanges + 1 ELSE idChanges
  /\ session' = s
  /\ pendingEffect' = IF DepsChanged(session, s)
                      THEN ScheduledEffect(UserIdOf(s))
                      ELSE pendingEffect
  /\ UNCHANGED <<phase, loading, chatrooms, fetches, navigation, errorLog,
                 unhandled, pureVars>>

\* lines 75-77: the scheduled effect runs, after the commit and not in the
\* same step: continuations of earlier fetchChatrooms calls can run in
\* between.  It calls fetchChatrooms and drops the promise.
RunEffect ==
  /\ pendingEffect.scheduled
  /\ StartFetch(pendingEffect.uid)
  /\ pendingEffect' = NoEffect
  /\ UNCHANGED <<phase, session, loading, chatrooms, navigation, errorLog,
                 unhandled, idChanges, pureVars>>

\* the path built from another route name
ChatroomPathOtherRoute(id) == "/chat/" \o id

\* the path of line 82
ChatroomPath(id) == "/chatroom/" \o id

\* lines 106-112: the list is rendered only when loading is false
ListShown == phase = "mounted" /\ ~loading

\* onPress of the row at position k (1-based) of the FlatList
SelectRow(k) ==
  /\ ListShown
  /\ k \in 1..Len(chatrooms)
  /\ Len(navigation) < MaxNav
  /\ navigation' = Append(navigation, ChatroomPath(chatrooms[k].id))
  /\ UNCHANGED <<phase, session, loading, chatrooms, fetches, errorLog,
                 unhandled, idChanges, pendingEffect, pureVars>>

\* the screen goes away (an effect still waiting runs before the commit that
\* removes it); the effect of line 75 returns no cleanup, so the calls in
\* flight go on and still make their setChatrooms / setLoading calls
Unmount ==
  /\ phase = "mounted"
  /\ ~pendingEffect.scheduled
  /\ phase' = "unmounted"
  /\ UNCHANGED <<session, loading, chatrooms, fetches, navigation, errorLog,
                 unhandled, idChanges, pendingEffect, pureVars>>

(***************************************************************************)
(* formatTimestamp, lines 24-31.                                           *)
(*                                                                         *)
(* A timestamp string is the sequence of its UTF-16 code units, so that    *)
(* new Date(string) is modelled as the parser it is.  The parser is V8's   *)
(* (Node, Chrome): the ECMAScript date-time string format first, with      *)
(* zone designator, fraction and date-only forms, and V8's legacy parser   *)
(* for whatever is left.  A parsed day of month up to 31 is carried into   *)
(* the next month by MakeDay; a date-only form is UTC, a date-time form    *)
(* without zone designator is local time.                                  *)
(* The fields a Date shows are local: tsZone is the device's time zone,    *)
(* one of a few zones whose offset from UTC never changed.                 *)
(* format is date-fns' format with the pattern 'MMM d, h:mm a': it throws  *)
(* a RangeError on an Invalid Date.                                        *)
(***************************************************************************)
\* timestamp: string | null
TsNull == [isNull |-> TRUE, chars |-> <<>>]
TsString(chars) == [isNull |-> FALSE, chars |-> chars]

\* the device's time zone and its offset from UTC in minutes (the sign in
\* the name of an Etc zone is the reverse of its offset)
Zones == {"UTC", "Etc/GMT-10", "Etc/GMT+5"}
ZoneOffset(zone) ==
  CASE zone = "UTC" -> 0
    [] zone = "Etc/GMT-10" -> 600
    [] zone = "Etc/GMT+5" -> -300
LocalOffset == ZoneOffset(tsZone)

\* kNone of the parser's composers: no value yet
None == 2147483647

\* the printable ASCII characters, code units 32 to 126 in order (the grave
\* accent, code unit 96, has no TLA+ string and stands as the empty one; the
\* parser gives it no meaning of its own)
Ascii ==
  <<" ", "!", "\"", "#", "$", "%", "&", "'", "(", ")", "*", "+", ",", "-", ".", "/",
    "0", "1", "2", "3", "4", "5", "6", "7", "8", "9", ":", ";", "<", "=", ">", "?",
    "@", "A", "B", "C", "D", "E", "F", "G", "H", "I", "J", "K", "L", "M", "N", "O",
    "P", "Q", "R", "S", "T", "U", "V", "W", "X", "Y", "Z", "[", "\\", "]", "^", "_",
    "", "a", "b", "c", "d", "e", "f", "g", "h", "i", "j", "k", "l", "m", "n", "o",
    "p", "q", "r", "s", "t", "u", "v", "w", "x", "y", "z", "{", "|", "}", "~">>
CharOf(c) == IF c \in 32..126 THEN Ascii[c - 31] ELSE ""
CodeOf(char) == 31 + (CHOOSE i \in 1..95 : Ascii[i] = char)
\* the code units of a string of printable ASCII characters
CodeUnits(chars) == [k \in 1..Len(chars) |-> CodeOf(chars[k])]

IsAsciiDigit(c) == c \in 48..57
DigitVal(c) == c - 48
SymbolChars == {":", "-", "+", ".", ")"}
\* IsWhiteSpace: tab, vertical tab, form feed, the Unicode space separators
\* and the byte order mark
WhiteSpaceChars ==
  {9, 11, 12, 32, 160, 5760} \cup (8192..8202) \cup {8239, 8287, 12288, 65279}
\* line feed, carriage return, the line and the paragraph separator
LineTerminatorChars == {10, 13, 8232, 8233}
\* IsWhiteSpaceOrLineTerminator, the test of SkipWhiteSpace
IsWhiteSpaceOrLineTerminator(c) == c \in WhiteSpaceChars \cup LineTerminatorChars
\* 'A' and every code unit above it
IsAsciiAlphaOrAbove(c) == c >= 65
\* a character of a word: IsAsciiAlphaOrAbove and not IsWhiteSpace, so that
\* the line and the paragraph separator belong to words
IsWordChar(c) == IsAsciiAlphaOrAbove(c) /\ c \notin WhiteSpaceChars

\* AsciiAlphaToLower, for the lookup of a word: a letter in lower case; no
\* other character occurs in a keyword
AsciiAlphaToLower(c) ==
  IF c \in 65..90 THEN CharOf(c + 32)
  ELSE IF c \in 97..122 THEN CharOf(c)
  ELSE "?"

RECURSIVE Join(_)
Join(chars) == IF chars = <<>> THEN "" ELSE Head(chars) \o Join(Tail(chars))

\* the keyword table: a word is looked up by its first three characters, and
\* only a month name may be longer than three
MonthPrefixes ==
  <<"jan", "feb", "mar", "apr", "may", "jun",
    "jul", "aug", "sep", "oct", "nov", "dec">>
TimeZoneNames ==
  {"ut", "utc", "z", "gmt", "cdt", "cst", "edt", "est", "mdt", "mst", "pdt", "pst"}
TimeZoneHours(name) ==
  CASE name \in {"ut", "utc", "z", "gmt"} -> 0
    [] name = "edt" -> -4
    [] name \in {"cdt", "est"} -> -5
    [] name \in {"cst", "mdt"} -> -6
    [] name \in {"mst", "pdt"} -> -7
    [] name = "pst" -> -8

NoToken ==
  [kind |-> "end", num |-> 0, len |-> 0, sym |-> "", ktype |-> "", kval |-> 0]
EndOfInput == NoToken
NumberToken(n, length) == [NoToken EXCEPT !.kind = "number", !.num = n, !.len = length]
SymbolToken(c) == [NoToken EXCEPT !.kind = "symbol", !.sym = c, !.len = 1]
WhiteSpaceToken == [NoToken EXCEPT !.kind = "whitespace", !.len = 1]
UnknownToken == [NoToken EXCEPT !.kind = "unknown"]
KeywordToken(prefix, length) ==
  LET kw ==
        IF \E m \in 1..12 : MonthPrefixes[m] = prefix
        THEN <<"MONTH_NAME", CHOOSE m \in 1..12 : MonthPrefixes[m] = prefix>>
        ELSE IF length > 3 THEN <<"INVALID", 0>>
        ELSE IF prefix = "am" THEN <<"AM_PM", 0>>
        ELSE IF prefix = "pm" THEN <<"AM_PM", 12>>
        ELSE IF prefix \in TimeZoneNames THEN <<"TIME_ZONE_NAME", TimeZoneHours(prefix)>>
        ELSE IF prefix = "t" THEN <<"TIME_SEPARATOR", 0>>
        ELSE <<"INVALID", 0>>
  IN [NoToken EXCEPT !.kind = "keyword", !.len = length, !.ktype = kw[1], !.kval = kw[2]]

\* the first position from p on whose character is no digit
RECURSIVE DigitsEnd(_, _)
DigitsEnd(chars, p) ==
  IF p <= Len(chars) /\ IsAsciiDigit(chars[p]) THEN DigitsEnd(chars, p + 1) ELSE p

\* ReadUnsignedNumeral: leading zeros are skipped, nine digits are significant
RECURSIVE ReadUnsignedNumeral(_, _, _, _, _)
ReadUnsignedNumeral(chars, p, to, i, n) ==
  IF p >= to THEN n
  ELSE IF i = 0 /\ chars[p] = 48 THEN ReadUnsignedNumeral(chars, p + 1, to, 0, 0)
  ELSE ReadUnsignedNumeral(chars, p + 1, to, i + 1,
                           IF i < 9 THEN 10 * n + DigitVal(chars[p]) ELSE n)

\* the first position from p on whose character does not belong to a word
RECURSIVE WordEnd(_, _)
WordEnd(chars, p) ==
  IF p <= Len(chars) /\ IsWordChar(chars[p]) THEN WordEnd(chars, p + 1) ELSE p

\* SkipParentheses: the position after the parenthesis that balances the one
\* at p, or the end of the input
RECURSIVE ParenthesesEnd(_, _, _)
ParenthesesEnd(chars, p, balance) ==
  LET b == IF CharOf(chars[p]) = ")" THEN balance - 1
           ELSE IF CharOf(chars[p]) = "(" THEN balance + 1 ELSE balance
  IN IF b > 0 /\ p + 1 <= Len(chars) /\ chars[p + 1] # 0
     THEN ParenthesesEnd(chars, p + 1, b)
     ELSE p + 1

\* DateStringTokenizer::Scan at position p: the token and the position after it
Scan(chars, p) ==
  LET c == chars[p] IN
  IF IsAsciiDigit(c)
  THEN LET to == DigitsEnd(chars, p)
       IN [tok |-> NumberToken(ReadUnsignedNumeral(chars, p, to, 0, 0), to - p), next |-> to]
  ELSE IF CharOf(c) \in SymbolChars THEN [tok |-> SymbolToken(CharOf(c)), next |-> p + 1]
  ELSE IF IsWordChar(c)
  THEN LET to == WordEnd(chars, p)
           prefix == Join([k \in 1..(IF to - p < 3 THEN to - p ELSE 3) |->
                              AsciiAlphaToLower(chars[p + k - 1])])
       IN [tok |-> KeywordToken(prefix, to - p), next |-> to]
  ELSE IF IsWhiteSpaceOrLineTerminator(c) THEN [tok |-> WhiteSpaceToken, next |-> p + 1]
  ELSE IF CharOf(c) = "(" THEN [tok |-> UnknownToken, next |-> ParenthesesEnd(chars, p, 0)]
  ELSE [tok |-> UnknownToken, next |-> p + 1]

\* the tokens from position p on; a NUL is the end of the input
RECURSIVE Tokenize(_, _)
Tokenize(chars, p) ==
  IF p > Len(chars) \/ chars[p] = 0 THEN <<>>
  ELSE LET r == Scan(chars, p) IN <<r.tok>> \o Tokenize(chars, r.next)

\* the token at position p of the scanner
Peek(toks, p) == IF p \in 1..Len(toks) THEN toks[p] ELSE EndOfInput

IsNumber(t) == t.kind = "number"
IsFixedNumber(t, length) == t.kind = "number" /\ t.len = length
IsSymbol(t, c) == t.kind = "symbol" /\ t.sym = c
IsAsciiSign(t) == IsSymbol(t, "+") \/ IsSymbol(t, "-")
AsciiSign(t) == IF t.sym = "+" THEN 1 ELSE -1
IsKeywordType(t, type) == t.kind = "keyword" /\ t.ktype = type
IsKeywordZ(t) == IsKeywordType(t, "TIME_ZONE_NAME") /\ t.len = 1
IsEndOfInput(t) == t.kind = "end"
IsWhiteSpace(t) == t.kind = "whitespace"

IsMonth(x) == x \in 1..12
IsDay(x) == x \in 1..31
IsHour(x) == x \in 0..23
IsHour12(x) == x \in 0..12
IsMinute(x) == x \in 0..59
IsSecond(x) == x \in 0..59
IsMillisecond(x) == x \in 0..999

\* ReadMilliseconds: the three most significant digits of a fraction
RECURSIVE Pow10(_)
Pow10(k) == IF k = 0 THEN 1 ELSE 10 * Pow10(k - 1)
ReadMilliseconds(t) ==
  IF t.len = 1 THEN t.num * 100
  ELSE IF t.len = 2 THEN t.num * 10
  ELSE IF t.len > 3 THEN t.num \div Pow10((IF t.len > 9 THEN 9 ELSE t.len) - 3)
  ELSE t.num

\* DayComposer, TimeComposer and TimeZoneComposer, and has_read_number
Composers ==
  [ok |-> TRUE,
   dayComp |-> <<>>, namedMonth |-> None, isIsoDate |-> FALSE,
   timeComp |-> <<>>, hourOffset |-> None,
   tzSign |-> None, tzHour |-> None, tzMinute |-> None,
   hasReadNumber |-> FALSE]
Reject(s) == [s EXCEPT !.ok = FALSE]

DayAdd(s, n) ==
  IF Len(s.dayComp) < 3 THEN [s EXCEPT !.dayComp = Append(@, n)] ELSE Reject(s)
TimeIsEmpty(s) == s.timeComp = <<>>
TimeAdd(s, n) ==
  IF Len(s.timeComp) < 4 THEN [s EXCEPT !.timeComp = Append(@, n)] ELSE Reject(s)
\* AddFinal: the parser does not look at its result, so that a number the
\* composer has no room for is dropped
TimeAddFinal(s, n) ==
  IF Len(s.timeComp) < 4
  THEN [s EXCEPT !.timeComp =
          [k \in 1..4 |-> IF k <= Len(@) THEN @[k] ELSE IF k = Len(@) + 1 THEN n ELSE 0]]
  ELSE s
TimeIsExpecting(s, n) ==
  \/ Len(s.timeComp) = 1 /\ IsMinute(n)
  \/ Len(s.timeComp) = 2 /\ IsSecond(n)
  \/ Len(s.timeComp) = 3 /\ IsMillisecond(n)
TzSet(s, hours) ==
  [s EXCEPT !.tzSign = IF hours < 0 THEN -1 ELSE 1,
            !.tzHour = IF hours < 0 THEN -hours ELSE hours,
            !.tzMinute = 0]
TzIsExpecting(s, n) == s.tzHour # None /\ s.tzMinute = None /\ IsMinute(n)
TzIsUTC(s) == s.tzHour = 0 /\ s.tzMinute = 0
TzIsEmpty(s) == s.tzHour = None

\* what ParseES5DateTime hands back: the composers, the position of the next
\* unhandled token, and whether the string ended, is invalid, or is left to
\* the legacy parser
ES5Result(status, s, p) == [status |-> status, s |-> s, p |-> p]

\* the end of a well-formed date-time string
ES5End(toks, p, s) ==
  IF ~IsEndOfInput(Peek(toks, p)) THEN ES5Result("invalid", s, p)
  ELSE ES5Result("end",
                 [(IF TzIsEmpty(s) /\ TimeIsEmpty(s) THEN TzSet(s, 0) ELSE s)
                    EXCEPT !.isIsoDate = TRUE],
                 p)

\* the optional zone designator: Z, +hh:mm, -hh:mm, +hhmm or -hhmm
ES5TimeZone(toks, p, s) ==
  LET t == Peek(toks, p) IN
  IF IsKeywordZ(t) THEN ES5End(toks, p + 1, TzSet(s, 0))
  ELSE IF IsAsciiSign(t)
  THEN LET a == Peek(toks, p + 1)
           b == Peek(toks, p + 3)
           signed == [s EXCEPT !.tzSign = AsciiSign(t)]
       IN IF IsFixedNumber(a, 4)
          THEN IF IsHour(a.num \div 100) /\ IsMinute(a.num % 100)
               THEN ES5End(toks, p + 2,
                           [signed EXCEPT !.tzHour = a.num \div 100,
                                          !.tzMinute = a.num % 100])
               ELSE ES5Result("invalid", s, p)
          ELSE IF /\ IsFixedNumber(a, 2) /\ IsHour(a.num)
                  /\ IsSymbol(Peek(toks, p + 2), ":")
                  /\ IsFixedNumber(b, 2) /\ IsMinute(b.num)
               THEN ES5End(toks, p + 4,
                           [signed EXCEPT !.tzHour = a.num, !.tzMinute = b.num])
               ELSE ES5Result("invalid", s, p)
  ELSE ES5End(toks, p, s)

\* the optional time: T HH:mm, T HH:mm:ss or T HH:mm:ss.sss; hour 24 is
\* allowed when everything after it is zero
ES5Time(toks, p, s) ==
  IF ~IsKeywordType(Peek(toks, p), "TIME_SEPARATOR")
  THEN IF IsEndOfInput(Peek(toks, p)) THEN ES5End(toks, p, s)
       ELSE ES5Result("legacy", s, p)
  ELSE
    LET hour == Peek(toks, p + 1)
        minute == Peek(toks, p + 3)
        second == Peek(toks, p + 5)
        fraction == Peek(toks, p + 7)
        hourIs24 == hour.num = 24
        hm == TimeAdd(TimeAdd(s, hour.num), minute.num)
        hms == TimeAdd(hm, second.num)
    IN IF ~(/\ IsFixedNumber(hour, 2) /\ hour.num \in 0..24
            /\ IsSymbol(Peek(toks, p + 2), ":")
            /\ IsFixedNumber(minute, 2) /\ IsMinute(minute.num)
            /\ ~(hourIs24 /\ minute.num > 0))
       THEN ES5Result("invalid", s, p)
       ELSE IF ~IsSymbol(Peek(toks, p + 4), ":") THEN ES5TimeZone(toks, p + 4, hm)
       ELSE IF ~(/\ IsFixedNumber(second, 2) /\ IsSecond(second.num)
                 /\ ~(hourIs24 /\ second.num > 0))
       THEN ES5Result("invalid", s, p)
       ELSE IF ~IsSymbol(Peek(toks, p + 6), ".") THEN ES5TimeZone(toks, p + 6, hms)
       ELSE IF ~(IsNumber(fraction) /\ ~(hourIs24 /\ fraction.num > 0))
       THEN ES5Result("invalid", s, p)
       ELSE ES5TimeZone(toks, p + 8, TimeAdd(hms, ReadMilliseconds(fraction)))

\* the optional -MM and -DD after the year
ES5MonthDay(toks, p, s) ==
  LET month == Peek(toks, p + 1)
      day == Peek(toks, p + 3)
      ym == DayAdd(s, month.num)
  IN IF ~IsSymbol(Peek(toks, p), "-") THEN ES5Time(toks, p, s)
     ELSE IF ~(IsFixedNumber(month, 2) /\ IsMonth(month.num))
     THEN ES5Result("legacy", s, p + 1)
     ELSE IF ~IsSymbol(Peek(toks, p + 2), "-") THEN ES5Time(toks, p + 2, ym)
     ELSE IF ~(IsFixedNumber(day, 2) /\ IsDay(day.num))
     THEN ES5Result("legacy", ym, p + 3)
     ELSE ES5Time(toks, p + 4, DayAdd(ym, day.num))

\* ParseES5DateTime: as far as possible as a date-time string, from the year
ParseES5DateTime(toks) ==
  LET first == Peek(toks, 1)
      second == Peek(toks, 2)
  IN IF IsAsciiSign(first)
     THEN IF ~IsFixedNumber(second, 6) THEN ES5Result("legacy", Composers, 1)
          ELSE IF AsciiSign(first) < 0 /\ second.num = 0
          THEN ES5Result("legacy", Composers, 3)
          ELSE ES5MonthDay(toks, 3, DayAdd(Composers, AsciiSign(first) * second.num))
     ELSE IF IsFixedNumber(first, 4)
     THEN ES5MonthDay(toks, 2, DayAdd(Composers, first.num))
     ELSE ES5Result("legacy", Composers, 1)

\* a number token of the legacy parser, at position p: the composers after
\* it and the position of the scanner
LegacyNumber(toks, p, s0) ==
  LET s == [s0 EXCEPT !.hasReadNumber = TRUE]
      n == Peek(toks, p).num
      dot == IsSymbol(Peek(toks, p + 1), ".")
      \* the scanner after an optional '.' that was skipped
      q == IF dot THEN p + 2 ELSE p + 1
  IN IF IsSymbol(Peek(toks, p + 1), ":")
     THEN IF IsSymbol(Peek(toks, p + 2), ":")
          THEN [s |-> IF TimeIsEmpty(s) THEN TimeAdd(TimeAdd(s, n), 0) ELSE Reject(s),
                p |-> p + 3]
          ELSE [s |-> TimeAdd(s, n),
                p |-> IF IsSymbol(Peek(toks, p + 2), ".") THEN p + 3 ELSE p + 2]
     ELSE IF dot /\ TimeIsExpecting(s, n)
     THEN [s |-> IF IsNumber(Peek(toks, p + 2))
                 THEN TimeAddFinal(TimeAdd(s, n), ReadMilliseconds(Peek(toks, p + 2)))
                 ELSE Reject(s),
           p |-> p + 3]
     ELSE IF TzIsExpecting(s, n) THEN [s |-> [s EXCEPT !.tzMinute = n], p |-> q]
     ELSE IF TimeIsExpecting(s, n)
     THEN [s |-> IF \/ IsEndOfInput(Peek(toks, q)) \/ IsWhiteSpace(Peek(toks, q))
                    \/ IsKeywordZ(Peek(toks, q)) \/ IsAsciiSign(Peek(toks, q))
                 THEN TimeAddFinal(s, n)
                 ELSE Reject(s),
           p |-> q]
     ELSE [s |-> DayAdd(s, n),
           p |-> IF IsSymbol(Peek(toks, q), "-") THEN q + 1 ELSE q]

\* a word of the legacy parser, at position p
LegacyKeyword(toks, p, s) ==
  LET t == Peek(toks, p) IN
  IF t.ktype = "AM_PM" /\ ~TimeIsEmpty(s)
  THEN [s |-> [s EXCEPT !.hourOffset = t.kval], p |-> p + 1]
  ELSE IF t.ktype = "MONTH_NAME"
  THEN [s |-> [s EXCEPT !.namedMonth = t.kval],
        p |-> IF IsSymbol(Peek(toks, p + 1), "-") THEN p + 2 ELSE p + 1]
  ELSE IF t.ktype = "TIME_ZONE_NAME" /\ s.hasReadNumber
  THEN [s |-> TzSet(s, t.kval), p |-> p + 1]
  ELSE [s |-> IF s.hasReadNumber \/ IsNumber(Peek(toks, p + 1)) THEN Reject(s) ELSE s,
        p |-> p + 1]

\* a sign after UTC or after a time, at position p: an offset from UTC
LegacyOffset(toks, p, s0) ==
  LET t == Peek(toks, p)
      number == IsNumber(Peek(toks, p + 1))
      n == IF number THEN Peek(toks, p + 1).num ELSE 0
      length == IF number THEN Peek(toks, p + 1).len ELSE 0
      q == IF number THEN p + 2 ELSE p + 1
      s == [s0 EXCEPT !.tzSign = AsciiSign(t), !.hasReadNumber = TRUE]
  IN IF IsSymbol(Peek(toks, q), ":")
     THEN [s |-> [s EXCEPT !.tzHour = n, !.tzMinute = None], p |-> q]
     ELSE IF length \in {1, 2}
     THEN [s |-> [s EXCEPT !.tzHour = n, !.tzMinute = 0], p |-> q]
     ELSE IF length \in {3, 4}
     THEN [s |-> [s EXCEPT !.tzHour = n \div 100, !.tzMinute = n % 100], p |-> q]
     ELSE [s |-> Reject(s), p |-> q]

\* the loop of the legacy parser, from the token at position p
RECURSIVE LegacyParse(_, _, _)
LegacyParse(toks, p, s) ==
  LET t == Peek(toks, p)
      r == IF IsNumber(t) THEN LegacyNumber(toks, p, s)
           ELSE IF t.kind = "keyword" THEN LegacyKeyword(toks, p, s)
           ELSE IF IsAsciiSign(t) /\ (TzIsUTC(s) \/ ~TimeIsEmpty(s))
           THEN LegacyOffset(toks, p, s)
           ELSE IF (IsAsciiSign(t) \/ IsSymbol(t, ")")) /\ s.hasReadNumber
           THEN [s |-> Reject(s), p |-> p + 1]
           ELSE [s |-> s, p |-> p + 1]
  IN IF ~s.ok \/ IsEndOfInput(t) THEN s ELSE LegacyParse(toks, r.p, r.s)

\* DayComposer::Write: year, month and day, when they are a date
DayWrite(s) ==
  LET comp == [k \in 1..3 |-> IF k <= Len(s.dayComp) THEN s.dayComp[k] ELSE 1]
      ymd ==
        IF s.namedMonth = None
        THEN IF s.isIsoDate \/ ~IsDay(comp[1])
             THEN <<comp[1], comp[2], comp[3]>>
             ELSE <<comp[3], comp[1], comp[2]>>
        ELSE IF ~IsDay(comp[1])
             THEN <<comp[1], s.namedMonth, comp[2]>>
             ELSE <<comp[2], s.namedMonth, comp[1]>>
      year == IF s.isIsoDate THEN ymd[1]
              ELSE IF ymd[1] \in 0..49 THEN ymd[1] + 2000
              ELSE IF ymd[1] \in 50..99 THEN ymd[1] + 1900
              ELSE ymd[1]
  IN [ok |-> Len(s.dayComp) >= 1 /\ IsMonth(ymd[2]) /\ IsDay(ymd[3]),
      year |-> year, month |-> ymd[2], day |-> ymd[3]]

\* TimeComposer::Write: hour, minute, second and millisecond, when they are a
\* time of day
TimeWrite(s) ==
  LET comp == [k \in 1..4 |-> IF k <= Len(s.timeComp) THEN s.timeComp[k] ELSE 0]
      hour == IF s.hourOffset = None THEN comp[1] ELSE (comp[1] % 12) + s.hourOffset
  IN [ok |-> /\ s.hourOffset # None => IsHour12(comp[1])
             /\ \/ /\ IsHour(hour) /\ IsMinute(comp[2]) /\ IsSecond(comp[3])
                   /\ IsMillisecond(comp[4])
                \/ hour = 24 /\ comp[2] = 0 /\ comp[3] = 0 /\ comp[4] = 0,
      hour |-> hour, minute |-> comp[2], second |-> comp[3], millisecond |-> comp[4]]

\* hour * 3600 + minute * 60 as the 32-bit unsigned integer the parser
\* computes it in, divided by 4 (hour is below 10^9, minute below 100)
OffsetQuarterSeconds(hour, minute) ==
  LET h == hour % 268435456
      \* 225 * hour modulo 2^28
      x == ((((h \div 16384) * 225) % 16384) * 16384 + (h % 16384) * 225) % 268435456
  IN (4 * x + 15 * minute) % 1073741824

\* TimeZoneComposer::Write: local time, or the offset from UTC in seconds when
\* it is a small integer (at most 2^31 - 1)
TimeZoneWrite(s) ==
  LET quarter == OffsetQuarterSeconds(IF s.tzHour = None THEN 0 ELSE s.tzHour,
                                      IF s.tzMinute = None THEN 0 ELSE s.tzMinute)
  IN IF s.tzSign = None THEN [ok |-> TRUE, local |-> TRUE, offset |-> 0]
     ELSE IF quarter > 536870911 THEN [ok |-> FALSE, local |-> FALSE, offset |-> 0]
     ELSE [ok |-> TRUE, local |-> FALSE, offset |-> s.tzSign * 4 * quarter]

\* the day number of a date of the proleptic Gregorian calendar, 0 at
\* 1970-01-01; a day past the end of its month counts on into the next
DaysFromCivil(year, month, day) ==
  LET y == IF month <= 2 THEN year - 1 ELSE year
      era == y \div 400
      yoe == y - era * 400
      doy == (153 * (IF month > 2 THEN month - 3 ELSE month + 9) + 2) \div 5 + day - 1
      doe == yoe * 365 + yoe \div 4 - yoe \div 100 + doy
  IN era * 146097 + doe - 719468

\* the month and the day of month of a day number
CivilFromDays(days) ==
  LET z == days + 719468
      era == z \div 146097
      doe == z - era * 146097
      yoe == (doe - doe \div 1460 + doe \div 36524 - doe \div 146096) \div 365
      doy == doe - (365 * yoe + yoe \div 4 - yoe \div 100)
      mp == (5 * doy + 2) \div 153
  IN [month |-> IF mp < 10 THEN mp + 3 ELSE mp - 9,
      day |-> doy - (153 * mp + 2) \div 5 + 1]

\* MakeDay accepts years of at most a million, a time value is at most
\* 100,000,000 days from the epoch
MaxYear == 1000000
MaxDay == 100000000

InvalidDate == [valid |-> FALSE, month |-> 0, day |-> 0, hours |-> 0, minutes |-> 0]

\* the Date of an instant, given as a day number and a second of that day in
\* UTC (the second may lie outside the day), exact when no milliseconds
\* follow: its fields in local time
MakeDate(day, second, exact) ==
  LET utcDay == day + second \div 86400
      utcSecond == second % 86400
      localDay == utcDay + (utcSecond + 60 * LocalOffset) \div 86400
      localSecond == (utcSecond + 60 * LocalOffset) % 86400
      civil == CivilFromDays(localDay)
  IN IF utcDay \in (-MaxDay)..(MaxDay - 1) \/ (utcDay = MaxDay /\ utcSecond = 0 /\ exact)
     THEN [valid |-> TRUE, month |-> civil.month, day |-> civil.day,
           hours |-> localSecond \div 3600, minutes |-> (localSecond % 3600) \div 60]
     ELSE InvalidDate

\* what is left to the legacy parser once ParseES5DateTime has handed back
LegacyRest(toks, es5) ==
  IF es5.status = "invalid" THEN Reject(es5.s)
  ELSE IF es5.status = "end" THEN es5.s
  ELSE LegacyParse(toks, es5.p, [es5.s EXCEPT !.hasReadNumber = es5.s.dayComp # <<>>])

\* DateParser::Parse: the composers after the whole string
Parse(toks) == LegacyRest(toks, ParseES5DateTime(toks))

\* the Date of what the composers wrote
DateOfParts(ok, date, time, zone) ==
  IF ~ok \/ ~date.ok \/ ~time.ok \/ ~zone.ok THEN InvalidDate
  ELSE IF date.year \notin (-MaxYear)..MaxYear THEN InvalidDate
  ELSE LET offset == IF zone.local THEN 60 * LocalOffset ELSE zone.offset
       IN MakeDate(DaysFromCivil(date.year, date.month, date.day) - (offset \div 86400),
                   time.hour * 3600 + time.minute * 60 + time.second - (offset % 86400),
                   time.millisecond = 0)

DateOfComposers(s) == DateOfParts(s.ok, DayWrite(s), TimeWrite(s), TimeZoneWrite(s))

\* Date.parse: the Date of a string, Invalid Date when it is no date
ParseDateTime(chars) == DateOfComposers(Parse(Tokenize(chars, 1)))

\* new Date(timestamp): new Date(null) is the epoch
NewDate(timestamp) ==
  IF timestamp.isNull THEN MakeDate(0, 0, TRUE) ELSE ParseDateTime(timestamp.chars)

MonthNames ==
  <<"Jan", "Feb", "Mar", "Apr", "May", "Jun",
    "Jul", "Aug", "Sep", "Oct", "Nov", "Dec">>

Pad2(n) == IF n < 10 THEN "0" \o ToString(n) ELSE ToString(n)

\* the h token: 12-hour clock, 1..12
Hour12(hours) == IF hours % 12 = 0 THEN 12 ELSE hours % 12

\* what the caller of an expression observes when it throws
Thrown == "<thrown>"

\* format(date, 'MMM d, h:mm a') of date-fns: the text, or the RangeError
\* ("Invalid time value") it throws for an Invalid Date
Format(date) ==
  IF ~date.valid
  THEN Thrown
  ELSE MonthNames[date.month] \o " " \o ToString(date.day) \o ", "
       \o ToString(Hour12(date.hours)) \o ":" \o Pad2(date.minutes)
       \o " " \o (IF date.hours < 12 THEN "AM" ELSE "PM")

\* if (!timestamp) return ''
Falsy(timestamp) == timestamp.isNull \/ timestamp.chars = <<>>

\* catch { return '' } around an expression whose outcome is r
Catch(r) == IF r = Thrown THEN "" ELSE r

\* lines 26-30 without the try and catch
TryFormatNoCatch(timestamp) == Format(NewDate(timestamp))

\* try { return format(new Date(timestamp), ...) } catch { return '' }
TryFormat(timestamp) == Catch(Format(NewDate(timestamp)))

formatTimestamp(timestamp) ==
  IF Falsy(timestamp) THEN "" ELSE TryFormat(timestamp)

Chars2(n) == <<48 + (n \div 10), 48 + (n % 10)>>

\* the characters of YYYY-MM-DDTHH:mm:00 for year 2024
IsoChars(month, day, hours, minutes) ==
  CodeUnits(<<"2", "0", "2", "4", "-">>) \o Chars2(month) \o CodeUnits(<<"-">>)
  \o Chars2(day) \o CodeUnits(<<"T">>) \o Chars2(hours) \o CodeUnits(<<":">>)
  \o Chars2(minutes) \o CodeUnits(<<":", "0", "0">>)

\* strings of other shapes: with zone designator or fraction, date only,
\* hour 24, days past the end of the month, legacy formats, and no dates
OtherStrings ==
  \* 2024-01-05T15:45
  { <<"2", "0", "2", "4", "-", "0", "1", "-", "0", "5", "T", "1", "5", ":",
      "4", "5">>
  \* 2024-01-05T15:45:00Z
  , <<"2", "0", "2", "4", "-", "0", "1", "-", "0", "5", "T", "1", "5", ":",
      "4", "5", ":", "0", "0", "Z">>
  \* 2024-01-05T15:45:00.123456+00:00
  , <<"2", "0", "2", "4", "-", "0", "1", "-", "0", "5", "T", "1", "5", ":",
      "4", "5", ":", "0", "0", ".", "1", "2", "3", "4", "5", "6", "+", "0",
      "0", ":", "0", "0">>
  \* 2024-01-05T15:45:00+05:30
  , <<"2", "0", "2", "4", "-", "0", "1", "-", "0", "5", "T", "1", "5", ":",
      "4", "5", ":", "0", "0", "+", "0", "5", ":", "3", "0">>
  \* 2024-01-05T23:45:00-0500
  , <<"2", "0", "2", "4", "-", "0", "1", "-", "0", "5", "T", "2", "3", ":",
      "4", "5", ":", "0", "0", "-", "0", "5", "0", "0">>
  \* 2024-12-31T23:30:00Z
  , <<"2", "0", "2", "4", "-", "1", "2", "-", "3", "1", "T", "2", "3", ":",
      "3", "0", ":", "0", "0", "Z">>
  \* 2024-01-05
  , <<"2", "0", "2", "4", "-", "0", "1", "-", "0", "5">>
  \* 2024-01
  , <<"2", "0", "2", "4", "-", "0", "1">>
  \* 2024
  , <<"2", "0", "2", "4">>
  \* 2024-01-05T24:00:00
  , <<"2", "0", "2", "4", "-", "0", "1", "-", "0", "5", "T", "2", "4", ":",
      "0", "0", ":", "0", "0">>
  \* 2024-01-05T24:00:01
  , <<"2", "0", "2", "4", "-", "0", "1", "-", "0", "5", "T", "2", "4", ":",
      "0", "0", ":", "0", "1">>
  \* 2024-02-30T12:00:00
  , <<"2", "0", "2", "4", "-", "0", "2", "-", "3", "0", "T", "1", "2", ":",
      "0", "0", ":", "0", "0">>
  \* 2024-04-31T12:00:00
  , <<"2", "0", "2", "4", "-", "0", "4", "-", "3", "1", "T", "1", "2", ":",
      "0", "0", ":", "0", "0">>
  \* 2023-02-29T12:00:00
  , <<"2", "0", "2", "3", "-", "0", "2", "-", "2", "9", "T", "1", "2", ":",
      "0", "0", ":", "0", "0">>
  \* 2024-01-05T
  , <<"2", "0", "2", "4", "-", "0", "1", "-", "0", "5", "T">>
  \* 2024-01-05T15:45:00 Z
  , <<"2", "0", "2", "4", "-", "0", "1", "-", "0", "5", "T", "1", "5", ":",
      "4", "5", ":", "0", "0", " ", "Z">>
  \* 2024-13-05
  , <<"2", "0", "2", "4", "-", "1", "3", "-", "0", "5">>
  \* 2024-1-5
  , <<"2", "0", "2", "4", "-", "1", "-", "5">>
  \* 2024-01-05 15:45:00
  , <<"2", "0", "2", "4", "-", "0", "1", "-", "0", "5", " ", "1", "5", ":",
      "4", "5", ":", "0", "0">>
  \* 2024/01/05
  , <<"2", "0", "2", "4", "/", "0", "1", "/", "0", "5">>
  \* Jan 5, 2024
  , <<"J", "a", "n", " ", "5", ",", " ", "2", "0", "2", "4">>
  \* January 5, 2024 3:45 PM
  , <<"J", "a", "n", "u", "a", "r", "y", " ", "5", ",", " ", "2", "0", "2",
      "4", " ", "3", ":", "4", "5", " ", "P", "M">>
  \* 1/5/2024 12:05 am
  , <<"1", "/", "5", "/", "2", "0", "2", "4", " ", "1", "2", ":", "0", "5",
      " ", "a", "m">>
  \* Fri, 05 Jan 2024 15:45:00 GMT
  , <<"F", "r", "i", ",", " ", "0", "5", " ", "J", "a", "n", " ", "2", "0",
      "2", "4", " ", "1", "5", ":", "4", "5", ":", "0", "0", " ", "G", "M",
      "T">>
  \* Fri Jan 05 2024 15:45:00 GMT+0530 (India Standard Time)
  , <<"F", "r", "i", " ", "J", "a", "n", " ", "0", "5", " ", "2", "0", "2",
      "4", " ", "1", "5", ":", "4", "5", ":", "0", "0", " ", "G", "M", "T",
      "+", "0", "5", "3", "0", " ", "(", "I", "n", "d", "i", "a", " ", "S",
      "t", "a", "n", "d", "a", "r", "d", " ", "T", "i", "m", "e", ")">>
  \* 5 Jan 2024 15:45 EST
  , <<"5", " ", "J", "a", "n", " ", "2", "0", "2", "4", " ", "1", "5", ":",
      "4", "5", " ", "E", "S", "T">>
  \* 12
  , <<"1", "2">>
  \* hello 1
  , <<"h", "e", "l", "l", "o", " ", "1">>
  \* 1 hello
  , <<"1", " ", "h", "e", "l", "l", "o">>
  \* Jan 5 2024 10:00:05:00.5
  , <<"J", "a", "n", " ", "5", " ", "2", "0", "2", "4", " ", "1", "0", ":",
      "0", "0", ":", "0", "5", ":", "0", "0", ".", "5">>
  \* Jan 5 2024 10:00 +5:60
  , <<"J", "a", "n", " ", "5", " ", "2", "0", "2", "4", " ", "1", "0", ":",
      "0", "0", " ", "+", "5", ":", "6", "0">>
  \* Jan 5 2024 10:00 +500001:00
  , <<"J", "a", "n", " ", "5", " ", "2", "0", "2", "4", " ", "1", "0", ":",
      "0", "0", " ", "+", "5", "0", "0", "0", "0", "1", ":", "0", "0">>
  \* 1943-01-01T00:00:00Z
  , <<"1", "9", "4", "3", "-", "0", "1", "-", "0", "1", "T", "0", "0", ":",
      "0", "0", ":", "0", "0", "Z">>
  \* not-a-date
  , <<"n", "o", "t", "-", "a", "-", "d", "a", "t", "e">>
  \* a space
  , <<" ">>
  }

\* strings with characters outside printable ASCII, as code units
OtherCodeUnits ==
  \* Jan 5 2024 with vertical tabs for the spaces
  { <<74, 97, 110, 11, 53, 11, 50, 48, 50, 52>>
  \* U+0001 before Jan 5 2024
  , <<1, 74, 97, 110, 32, 53, 32, 50, 48, 50, 52>>
  \* Jan 5 2024, a NUL, 10:00
  , <<74, 97, 110, 32, 53, 32, 50, 48, 50, 52, 0, 49, 48, 58, 48, 48>>
  \* Jan 5 2024 with no-break spaces for the spaces
  , <<74, 97, 110, 160, 53, 160, 50, 48, 50, 52>>
  \* e with acute accent, a space, 1/5/2024
  , <<233, 32, 49, 47, 53, 47, 50, 48, 50, 52>>
  \* a NUL
  , <<0>>
  \* 1/5/2024, a line separator (U+2028), 10:00
  , <<49, 47, 53, 47, 50, 48, 50, 52, 8232, 49, 48, 58, 48, 48>>
  \* 1/5/2024 and a paragraph separator (U+2029)
  , <<49, 47, 53, 47, 50, 48, 50, 52, 8233>>
  \* Jan 5 2024 with a line feed and a carriage return for the spaces
  , <<74, 97, 110, 10, 53, 13, 50, 48, 50, 52>>
  \* 1/5/2024 and a backspace
  , <<49, 47, 53, 47, 50, 48, 50, 52, 8>>
  }

\* the month, day, hours and minutes of the date-times tried
IsoFields == (0..13) \X {0, 1, 5, 28, 32} \X {0, 3, 12, 15, 23, 25} \X {0, 5, 45, 60}
IsoString(f) == TsString(IsoChars(f[1], f[2], f[3], f[4]))

\* the inputs formatTimestamp is applied to: well-formed date-times with
\* components in and out of range, the strings above, '' and null
TimestampInputs ==
  {IsoString(f) : f \in IsoFields}
  \cup {TsString(CodeUnits(chars)) : chars \in OtherStrings}
  \cup {TsString(chars) : chars \in OtherCodeUnits}
  \cup {TsString(<<>>), TsNull}

Unset == "<unset>"

\* one call of formatTimestamp on the chosen input
FormatTimestampCall ==
  /\ tsOut = Unset
  /\ tsOut' = formatTimestamp(tsIn)
  /\ UNCHANGED <<screenVars, tsIn, tsZone, trVars>>

(***************************************************************************)
(* Lines 54-65 on their own: the transformation applied to membership      *)
(* lists of every length up to MaxRows and to every batch over WideUrls.   *)
(***************************************************************************)
\* image URLs with two different non-empty ones
WideUrls == {"", "img1", "img2"}
WideBatches == SeqsUpTo(WideUrls, MaxBatch)

\* the n-th membership record of a long list
RowAt(n) == [chatroom |-> [id |-> "room" \o ToString(n), name |-> "Room " \o ToString(n)]]

TransformInputs ==
  {NullData} \cup {RowsData([k \in 1..n |-> RowAt(k)]) : n \in 0..MaxRows}

NotRun == [done |-> FALSE, list |-> <<>>]

\* lines 54-65 applied to the chosen data and batch
TransformCall ==
  /\ ~trOut.done
  /\ trOut' = [done |-> TRUE, list |-> TransformedData(trData, trImages)]
  /\ UNCHANGED <<screenVars, tsVars, trData, trImages>>

ScreenInit ==
  /\ phase = "idle"
  /\ loading = TRUE
  /\ chatrooms = <<>>
  /\ fetches = <<>>
  /\ navigation = <<>>
  /\ errorLog = 0
  /\ unhandled = 0
  /\ idChanges = 0
  /\ pendingEffect = NoEffect

Init ==
  /\ ScreenInit
  /\ session \in Sessions
  /\ tsIn = TsNull
  /\ tsOut = Unset
  /\ tsZone = "UTC"
  /\ trData = NullData
  /\ trImages = <<>>
  /\ trOut = NotRun

InitTs ==
  /\ ScreenInit
  /\ session = NoSession
  /\ tsIn \in TimestampInputs
  /\ tsOut = Unset
  /\ tsZone \in Zones
  /\ trData = NullData
  /\ trImages = <<>>
  /\ trOut = NotRun

InitTransform ==
  /\ ScreenInit
  /\ session = NoSession
  /\ tsIn = TsNull
  /\ tsOut = Unset
  /\ tsZone = "UTC"
  /\ trData \in TransformInputs
  /\ trImages \in WideBatches
  /\ trOut = NotRun

FetchStep(i) ==
  /\ i \in 1..Len(fetches)
  /\ \/ \E data \in MembershipResponses(fetches[i].uid) : MembershipReturns(i, data)
     \/ MembershipThrows(i)
     \/ \E unsplashImages \in ImageBatches : ImagesReturn(i, unsplashImages)
     \/ ImagesThrow(i)

Next ==
  \/ Mount
  \/ \E s \in Sessions : SessionChange(s)
  \/ RunEffect
  \/ \E i \in 1..Len(fetches) :
        \E data \in MembershipResponses(fetches[i].uid) : MembershipReturns(i, data)
  \/ \E i \in 1..Len(fetches) : MembershipThrows(i)
  \/ \E i \in 1..Len(fetches) :
        \E unsplashImages \in ImageBatches : ImagesReturn(i, unsplashImages)
  \/ \E i \in 1..Len(fetches) : ImagesThrow(i)
  \/ \E k \in 1..Len(chatrooms) : SelectRow(k)
  \/ Unmount

Spec == Init /\ [][Next]_vars

\* a scheduled effect eventually runs, and every network call eventually
\* returns or throws
FairSpec ==
  /\ Spec
  /\ WF_vars(RunEffect)
  /\ \A i \in 1..(MaxIdChanges + 1) : WF_vars(FetchStep(i))

NextTs == FormatTimestampCall

SpecTs == InitTs /\ [][NextTs]_vars

NextTransform == TransformCall

SpecTransform == InitTransform /\ [][NextTransform]_vars

(***************************************************************************)
(* Properties.                                                             *)
(***************************************************************************)
FetchIds == 1..Len(fetches)

\* fetch i completes in this step
Completes(i) == InFlight(fetches[i]) /\ Completed(fetches'[i])
\* fetch i completes in this step by the catch path
Fails(i) == InFlight(fetches[i]) /\ fetches'[i].pc = "failed"
\* fetch i completes in this step without throwing
Succeeds(i) == InFlight(fetches[i]) /\ fetches'[i].pc = "ok"

IdsOf(list) == [k \in 1..Len(list) |-> list[k].id]
RowIds(rows) == [k \in 1..Len(rows) |-> rows[k].chatroom.id]
AvatarOf(entry) == entry.lastMessage.sender.avatar_url

\* C1: every fetch that completes, by return or by throw, leaves loading
\* false and lets no exception out of fetchChatrooms; and when every network
\* call eventually returns or throws, loading is eventually false after mount
C1_LoadingAlwaysCleared ==
  /\ [][\A i \in FetchIds : Completes(i) => (loading' = FALSE /\ unhandled' = 0)]_vars
  /\ [](phase # "idle" => <>(loading = FALSE))

\* a membership query threw and an image query threw, and loading is false
C1_Witness ==
  /\ Len(fetches) = 2
  /\ fetches[1].pc = "failed" /\ ~fetches[1].imagesIssued
  /\ fetches[2].pc = "failed" /\ fetches[2].imagesIssued
  /\ loading = FALSE
  /\ unhandled = 0

\* C2 as stated: a fetch that fails leaves the chat list empty
C2_FailureEmptiesList ==
  [][\A i \in FetchIds : Fails(i) => chatrooms' = <<>>]_vars

\* C2 amended: a fetch that fails performs no write to the chat list, which
\* keeps whatever it held before that fetch completed
C2_FailureKeepsList ==
  [][\A i \in FetchIds : Fails(i) => chatrooms' = chatrooms]_vars

\* the first fetch populated the list, the fetch started by the identity
\* change failed, and the list still holds the first user's chatrooms
C2_Witness ==
  /\ Len(fetches) = 2
  /\ fetches[1].pc = "ok"
  /\ fetches[2].pc = "failed"
  /\ fetches[1].uid = "u1"
  /\ UserIdOf(session) # "u1"
  /\ IdsOf(chatrooms) = <<"b", "a">>

\* C3 as stated: whenever a fetch is in flight, loading is true
C3_InFlightImpliesLoading ==
  \A i \in FetchIds : InFlight(fetches[i]) => loading = TRUE

\* C4: a fetch that completes without throwing replaces the list by one entry
\* per membership record, with the record's chatroom id and name, in backend
\* order; a null result gives the empty list
C4_ListReplacedByFetchResult ==
  [][\A i \in FetchIds : Succeeds(i) =>
        LET rows == IF fetches[i].data.isNull THEN <<>> ELSE fetches[i].data.rows
        IN /\ Len(chatrooms') = Len(rows)
           /\ \A k \in 1..Len(rows) :
                /\ chatrooms'[k].id = rows[k].chatroom.id
                /\ chatrooms'[k].name = rows[k].chatroom.name]_vars

\* the list held u1's two chatrooms and now holds exactly u2's one
C4_Witness ==
  /\ Len(fetches) = 2
  /\ fetches[1].pc = "ok" /\ fetches[1].uid = "u1"
  /\ fetches[2].pc = "ok" /\ fetches[2].uid = "u2"
  /\ UserIdOf(session) = "u2"
  /\ IdsOf(chatrooms) = <<"c">>
  /\ chatrooms[1].name = "Work"

\* C5 as stated: of the n entries built, entry i gets images[i mod m] when
\* m > 0 and null when m = 0
C5_AvatarIsBatchElement ==
  trOut.done /\ ~trData.isNull =>
    /\ Len(trOut.list) = Len(trData.rows)
    /\ \A k \in 1..Len(trOut.list) :
         AvatarOf(trOut.list[k]) =
           IF Len(trImages) > 0
           THEN trImages[((k - 1) % Len(trImages)) + 1]
           ELSE Null

\* C5 amended: of the n entries built, entry i gets images[i mod m] when
\* m > 0 and that element is a non-empty string, and null when m = 0 or the
\* element is the empty string
C5_AvatarIsBatchElementOrNull ==
  trOut.done /\ ~trData.isNull =>
    /\ Len(trOut.list) = Len(trData.rows)
    /\ \A k \in 1..Len(trOut.list) :
         AvatarOf(trOut.list[k]) =
           IF Len(trImages) > 0 /\ trImages[((k - 1) % Len(trImages)) + 1] # ""
           THEN trImages[((k - 1) % Len(trImages)) + 1]
           ELSE Null

\* five memberships decorated from a batch of two: images 0, 1, 0, 1, 0
C5_Witness ==
  /\ trOut.done
  /\ trImages = <<"img1", "img2">>
  /\ Len(trData.rows) = 5
  /\ [k \in 1..5 |-> AvatarOf(trOut.list[k])] = <<"img1", "img2", "img1", "img2", "img1">>

\* C6: the number of fetches started, counting the one of an effect that is
\* scheduled and has yet to run, is zero before mount and afterwards one plus
\* the number of changes of the current user id, so that completions, row
\* selection and session changes that keep the user id start none
C6_OneFetchPerIdentity ==
  Len(fetches) + (IF pendingEffect.scheduled THEN 1 ELSE 0)
    = IF phase = "idle" THEN 0 ELSE 1 + idChanges

\* after a failed fetch, a token refresh and a row selection there is still
\* one fetch for the mount and one for the identity change
C6_Witness ==
  /\ idChanges = 1
  /\ Len(fetches) = 2
  /\ fetches[1].pc = "failed"
  /\ fetches[2].pc = "ok"
  /\ session.access_token = "t2"
  /\ Len(navigation) = 1

\* C7: a step that issues a navigation request issues exactly one, to
\* /chatroom/x for the id x of a displayed row, and changes neither the chat
\* list nor loading nor the fetches
C7_SelectNavigatesOnce ==
  [][navigation' # navigation =>
        /\ ListShown
        /\ \E k \in 1..Len(chatrooms) :
             navigation' = Append(navigation, "/chatroom/" \o chatrooms[k].id)
        /\ chatrooms' = chatrooms
        /\ loading' = loading
        /\ fetches' = fetches]_vars

\* the second row of u1's list was selected
C7_Witness ==
  /\ navigation = <<"/chatroom/a">>
  /\ IdsOf(chatrooms) = <<"b", "a">>

\* a date-time of the grid with a field out of range is no valid date; the
\* engine accepts days up to 31 in every month and carries them over
FieldsInRange(f) ==
  f[1] \in 1..12 /\ f[2] \in 1..31 /\ f[3] \in 0..23 /\ f[4] \in 0..59
\* the other strings tried that are no valid dates, listed one by one
NotDateStrings ==
  { CodeUnits(<<"2", "0", "2", "4", "-", "0", "1", "-", "0", "5", "T", "2", "4", ":",
      "0", "0", ":", "0", "1">>)                       \* 2024-01-05T24:00:01
  , CodeUnits(<<"2", "0", "2", "4", "-", "0", "1", "-", "0", "5", "T">>)
  , CodeUnits(<<"2", "0", "2", "4", "-", "0", "1", "-", "0", "5", "T", "1", "5", ":",
      "4", "5", ":", "0", "0", " ", "Z">>)             \* 2024-01-05T15:45:00 Z
  , CodeUnits(<<"2", "0", "2", "4", "-", "1", "3", "-", "0", "5">>)
  , CodeUnits(<<"1", " ", "h", "e", "l", "l", "o">>)
  , CodeUnits(<<"n", "o", "t", "-", "a", "-", "d", "a", "t", "e">>)
  , CodeUnits(<<" ">>)
  , <<0>>                                              \* a NUL
  , CodeUnits(<<"1", "/", "5", "/", "2", "0", "2", "4">>) \o <<8232>>
      \o CodeUnits(<<"1", "0", ":", "0", "0">>)       \* U+2028 inside
  , CodeUnits(<<"1", "/", "5", "/", "2", "0", "2", "4">>) \o <<8233>>
  }
\* the inputs tried that do not parse to a valid date
NotDates ==
  {IsoString(f) : f \in {g \in IsoFields : ~FieldsInRange(g)}}
  \cup {TsString(chars) : chars \in NotDateStrings}

\* C8: formatTimestamp never throws; it returns '' for null, '' and the
\* strings that do not parse to a valid date (which ones these are is stated
\* here by the fields and string by string, not taken from the parser), and
\* a non-empty string for every other input, each of which is a valid date
C8_FormatTimestampTotal ==
  tsOut # Unset =>
    /\ tsOut # Thrown
    /\ IF tsIn.isNull \/ tsIn.chars = <<>> \/ tsIn \in NotDates
       THEN tsOut = ""
       ELSE tsOut # ""

\* 2024-01-05T15:45:00Z was formatted on a device five hours behind UTC
C8_Witness ==
  /\ tsIn = TsString(IsoChars(1, 5, 15, 45) \o CodeUnits(<<"Z">>))
  /\ tsZone = "Etc/GMT+5"
  /\ tsOut = "Jan 5, 10:45 AM"

\* C9: a change of the user id and an unmount leave every fetch in flight as
\* it is, and a fetch that completes without throwing writes its own rows to
\* the list whether or not its user id is still the current one
C9_NoCancellation ==
  [][/\ (UserIdOf(session') # UserIdOf(session) \/ phase' # phase) =>
          \A i \in FetchIds : InFlight(fetches[i]) => fetches'[i] = fetches[i]
     /\ \A i \in FetchIds : Succeeds(i) /\ ~fetches[i].data.isNull =>
          IdsOf(chatrooms') = RowIds(SelectRows(MembershipTable, fetches[i].uid))]_vars

\* the fetch for u1 and the fetch for u2, the current user, have both
\* completed without throwing, and the list holds the two chatrooms of u1:
\* the fetch for u2 wrote the one chatroom of u2 or, on null data, the empty
\* list, so the fetch for u1 wrote after it
C9_Witness ==
  /\ phase = "mounted"
  /\ UserIdOf(session) = "u2"
  /\ Len(fetches) = 2
  /\ fetches[1].uid = "u1" /\ fetches[1].pc = "ok"
  /\ fetches[2].uid = "u2" /\ fetches[2].pc = "ok"
  /\ IdsOf(chatrooms) = <<"b", "a">>
  /\ IdsOf(chatrooms) # RowIds(SelectRows(MembershipTable, UserIdOf(session)))

\* C10: the image query of a fetch is issued only once its membership query
\* has returned, and never when that query threw; a fetch that fails, at
\* either query, drops the records it received, writes nothing to the list,
\* logs one error and sets loading to false
C10_FailureHandledAlike ==
  /\ [](\A i \in FetchIds :
          /\ fetches[i].pc = "membership" => ~fetches[i].imagesIssued
          /\ fetches[i].pc \in {"images", "ok"} => fetches[i].imagesIssued)
  /\ [][\A i \in FetchIds : Fails(i) =>
          /\ fetches'[i].imagesIssued = (fetches[i].pc = "images")
          /\ fetches'[i].data = NullData
          /\ chatrooms' = chatrooms
          /\ errorLog' = errorLog + 1
          /\ loading' = FALSE]_vars

\* an image query failed while the list held an earlier fetch's entries
C10_Witness ==
  /\ Len(fetches) = 2
  /\ fetches[1].pc = "ok"
  /\ fetches[2].pc = "failed" /\ fetches[2].imagesIssued
  /\ errorLog = 1
  /\ chatrooms # <<>>
  /\ loading = FALSE

====
